---- MODULE Spec2Model ----
(***************************************************************************)
(* Hybrid skincare recommendation pipeline of naman7474/backend:           *)
(* rule-based filtering (product-filter.service.js), generative selection  *)
(* and validation (ai-analysis.service.js) and the asynchronous run driven *)
(* by analysis.controller.js.                                              *)
(***************************************************************************)
EXTENDS Integers, Sequences, FiniteSets, TLC

(***************************************************************************)
(* Bounds of the model.                                                    *)
(***************************************************************************)
MaxCatalog == 3
MaxItems == 2

(***************************************************************************)
(* JavaScript strings.  A string is a TLA+ string; includes and            *)
(* toLowerCase are computed character by character.                        *)
(***************************************************************************)
LowerChar(c) ==
  CASE c = "A" -> "a" [] c = "B" -> "b" [] c = "C" -> "c" [] c = "D" -> "d"
    [] c = "E" -> "e" [] c = "F" -> "f" [] c = "G" -> "g" [] c = "H" -> "h"
    [] c = "I" -> "i" [] c = "J" -> "j" [] c = "K" -> "k" [] c = "L" -> "l"
    [] c = "M" -> "m" [] c = "N" -> "n" [] c = "O" -> "o" [] c = "P" -> "p"
    [] c = "Q" -> "q" [] c = "R" -> "r" [] c = "S" -> "s" [] c = "T" -> "t"
    [] c = "U" -> "u" [] c = "V" -> "v" [] c = "W" -> "w" [] c = "X" -> "x"
    [] c = "Y" -> "y" [] c = "Z" -> "z" [] OTHER -> c

RECURSIVE toLowerCase(_)
toLowerCase(s) ==
  IF Len(s) = 0 THEN ""
  ELSE LowerChar(SubSeq(s, 1, 1)) \o toLowerCase(SubSeq(s, 2, Len(s)))

\* String.prototype.includes
includes(s, t) ==
  \E i \in 1..(Len(s) - Len(t) + 1) : SubSeq(s, i, i + Len(t) - 1) = t

\* Array.prototype.some over a sequence
some(seq, P(_)) == \E i \in 1..Len(seq) : P(seq[i])

\* Array.prototype.filter and Array.prototype.map over a sequence
filter(seq, P(_)) == SelectSeq(seq, P)

map(seq, F(_)) == [i \in 1..Len(seq) |-> F(seq[i])]

Range(seq) == {seq[i] : i \in 1..Len(seq)}

\* [...new Set(seq)]: first occurrences, in order, compared exactly
RECURSIVE uniq(_)
uniq(seq) ==
  IF seq = <<>> THEN <<>>
  ELSE LET front == uniq(SubSeq(seq, 1, Len(seq) - 1))
           last == seq[Len(seq)]
       IN IF last \in Range(front) THEN front ELSE Append(front, last)

(***************************************************************************)
(* JavaScript values of the catalog fields whose shape varies.             *)
(*   category_path : a string, null, or a (non-zero) number                *)
(*   ingredients_extracted / benefits_extracted : kind names the shape,    *)
(*   items the strings it carries                                          *)
(***************************************************************************)
JsStr(s) == [kind |-> "str", str |-> s]
JsNull == [kind |-> "null", str |-> ""]
JsNum == [kind |-> "num", str |-> ""]

NoValue == [kind |-> "null", items |-> <<>>]
Strings(items) == [kind |-> "strings", items |-> items]
Objects(items) == [kind |-> "objects", items |-> items]
IngredientsList(items) == [kind |-> "list", items |-> items]
SingleString(s) == [kind |-> "string", items |-> <<s>>]
EmptyObject == [kind |-> "object", items |-> <<>>]
Number42 == [kind |-> "number", items |-> <<>>]
\* {ingredients_list: [42]}: an entry that is not a string
MalformedList == [kind |-> "badlist", items |-> <<>>]
\* an avoid entry the analysis returned as an object instead of a string
JsObj == [kind |-> "obj", str |-> ""]

\* the value a throwing call yields
Raised == [raised |-> TRUE]

(***************************************************************************)
(* product-filter.service.js                                               *)
(***************************************************************************)

\* extractIngredientNames without the lower-casing
extractIngredientNamesAsGiven(ingredients) ==
  CASE ingredients.kind = "null" -> <<>>
    [] ingredients.kind = "string" /\ ingredients.items[1] = "" -> <<>>
    [] ingredients.kind \in {"strings", "objects", "list"} ->
         filter(ingredients.items, LAMBDA name : Len(name) > 0)
    [] ingredients.kind = "string" -> ingredients.items
    [] OTHER -> <<>>

\* extractIngredientNames of product-filter.service.js; the empty string is
\* falsy and leaves at the first test
extractIngredientNames(ingredients) ==
  CASE ingredients.kind = "null" -> <<>>
    [] ingredients.kind = "string" /\ ingredients.items[1] = "" -> <<>>
    [] ingredients.kind \in {"strings", "objects"} ->
         map(filter(ingredients.items, LAMBDA name : Len(name) > 0), toLowerCase)
    [] ingredients.kind = "list" ->
         filter(map(ingredients.items, toLowerCase), LAMBDA name : Len(name) > 0)
    [] ingredients.kind = "string" -> <<toLowerCase(ingredients.items[1])>>
    [] OTHER -> <<>>

extractBenefitNames(benefits) ==
  CASE benefits.kind = "null" -> <<>>
    [] benefits.kind \in {"strings", "objects"} ->
         map(filter(benefits.items, LAMBDA b : Len(b) > 0), toLowerCase)
    [] benefits.kind = "string" -> <<toLowerCase(benefits.items[1])>>
    [] OTHER -> <<>>

getBudgetRange(budgetPreference) ==
  CASE budgetPreference = "budget" -> <<0, 50>>
    [] budgetPreference = "mid_range" -> <<20, 100>>
    [] budgetPreference = "luxury" -> <<50, 500>>
    [] budgetPreference = "mixed" -> <<0, 500>>
    [] OTHER -> <<0, 500>>

getSkinTypeKeywords(skinType) ==
  CASE skinType = "Dry & Tight" ->
         <<"dry", "hydrating", "moisturizing", "nourishing", "hydration">>
    [] skinType = "Oily & Shiny" ->
         <<"oily", "oil-control", "mattifying", "sebum", "shine-control", "oil-free">>
    [] skinType = "Combination" ->
         <<"combination", "balanced", "normalize", "T-zone">>
    [] skinType = "Normal & Balanced" ->
         <<"normal", "balanced", "maintain", "all skin types">>
    [] OTHER -> <<"all skin types">>

\* extractFilterCriteria: the analysis carries ingredientRecommendations or
\* not; the user's allergies are appended to the avoid list and exact
\* duplicates are dropped.
extractFilterCriteria(aiAnalysis, userProfile) ==
  LET recs == aiAnalysis.hasIngredientRecommendations
      avoid == IF recs THEN aiAnalysis.avoid ELSE <<>>
      allergies == userProfile.known_allergies
  IN [mustHaveIngredients |-> IF recs THEN aiAnalysis.mustHave ELSE <<>>,
      beneficialIngredients |-> IF recs THEN aiAnalysis.beneficial ELSE <<>>,
      avoidIngredients |-> uniq(avoid \o allergies),
      skinType |-> userProfile.skin_type,
      allergies |-> allergies,
      budgetRange |-> getBudgetRange(userProfile.budget_range),
      primaryConcerns |-> userProfile.primary_skin_concerns]

\* (product.category_path || '').toLowerCase() raises on a number
categoryRaises(product) == product.category_path.kind = "num"

\* (i || '').toLowerCase() raises on an entry that is not a string
extractionRaises(ingredients) == ingredients.kind = "badlist"

lowerName(product) == toLowerCase(product.product_name)

lowerCategory(product) == toLowerCase(product.category_path.str)

normalized(product) == extractIngredientNames(product.ingredients_extracted)

\* ing.includes(avoidIngredient.toLowerCase()) for some normalized ingredient
avoidMatches(product, avoidIngredient) ==
  /\ avoidIngredient.kind = "str"
  /\ some(normalized(product),
          LAMBDA ing : includes(ing, toLowerCase(avoidIngredient.str)))

\* avoidIngredient.toLowerCase() raises inside the callback of some(), that
\* is when the product has an ingredient and the entry is not a string
avoidRaises(product, avoidIngredient) ==
  avoidIngredient.kind # "str" /\ normalized(product) # <<>>

Indices(seq, P(_)) == {i \in 1..Len(seq) : P(seq[i])}

Min(S) == CHOOSE m \in S : \A n \in S : m <= n

ingredientHits(product, wanted) ==
  filter(wanted, LAMBDA w :
    /\ Len(w) > 0
    /\ \/ some(normalized(product), LAMBDA ing : includes(ing, toLowerCase(w)))
       \/ includes(lowerName(product), toLowerCase(w)))

concernHits(product, criteria) ==
  filter(criteria.primaryConcerns, LAMBDA concern :
    \/ some(extractBenefitNames(product.benefits_extracted),
            LAMBDA benefit : includes(benefit, concern))
    \/ includes(lowerName(product), concern)
    \/ includes(lowerCategory(product), concern))

skinTypeHit(product, criteria) ==
  /\ criteria.skinType # ""
  /\ some(getSkinTypeKeywords(criteria.skinType), LAMBDA keyword :
       \/ includes(lowerName(product), keyword)
       \/ some(extractBenefitNames(product.benefits_extracted),
               LAMBDA b : includes(b, keyword)))

withinBudget(product, criteria) ==
  /\ product.price_mrp > 0
  /\ product.price_mrp >= criteria.budgetRange[1]
  /\ product.price_mrp <= criteria.budgetRange[2]

highlyRated(product) == product.rating_avg >= 4

processingError(product) ==
  [product |-> product, score |-> 1,
   matchReasons |-> <<"Processing error - included as fallback">>]

\* scoreProduct: the product with its score and matchReasons.  The avoid
\* loop runs over the entries in order: under strict the first match returns
\* score 0, an entry that raises ends in the catch block with score 1.
scoreProduct(product, criteria, strict) ==
  IF extractionRaises(product.ingredients_extracted) \/ categoryRaises(product)
  THEN processingError(product)
  ELSE
  LET avoid == criteria.avoidIngredients
      hitAt == Indices(avoid, LAMBDA a : avoidMatches(product, a))
      badAt == Indices(avoid, LAMBDA a : avoidRaises(product, a))
      avoided == filter(avoid, LAMBDA a : avoidMatches(product, a))
      must == ingredientHits(product, criteria.mustHaveIngredients)
      good == ingredientHits(product, criteria.beneficialIngredients)
      concerns == concernHits(product, criteria)
      skin == skinTypeHit(product, criteria)
      budget == withinBudget(product, criteria)
      sum == 100 * Len(must) + 50 * Len(good) + 30 * Len(concerns)
               + (IF skin THEN 20 ELSE 0) + (IF budget THEN 10 ELSE 0)
               - 50 * Len(avoided)
      floor == sum = 0 /\ Len(normalized(product)) > 0
      based == IF floor THEN 5 ELSE sum
      score == IF highlyRated(product) THEN based + 15 ELSE based
      reasons ==
        map(avoided, LAMBDA a : "Contains " \o a.str \o " (should avoid)")
        \o map(must, LAMBDA m : "Contains required " \o m)
        \o map(good, LAMBDA b : "Contains beneficial " \o b)
        \o map(concerns, LAMBDA c : "Targets " \o c)
        \o (IF skin THEN <<"Suitable for " \o criteria.skinType \o " skin">> ELSE <<>>)
        \o (IF budget THEN <<"Within budget">> ELSE <<>>)
        \o (IF floor THEN <<"Valid skincare product">> ELSE <<>>)
        \o (IF highlyRated(product) THEN <<"Highly rated">> ELSE <<>>)
  IN IF strict /\ hitAt # {} /\ (badAt = {} \/ Min(hitAt) < Min(badAt))
     THEN [product |-> product, score |-> 0,
           matchReasons |->
             <<"Contains " \o avoid[Min(hitAt)].str \o " (must avoid)">>]
     ELSE IF badAt # {}
     THEN processingError(product)
     ELSE [product |-> product, score |-> score, matchReasons |-> reasons]

\* detectProductCategory; (product.category_path || '').toLowerCase() raises
\* on a number: the value is then "raised" (see groupingRaises)
detectProductCategory(product) ==
  LET name == lowerName(product)
      category == lowerCategory(product)
  IN IF categoryRaises(product) THEN "raised"
     ELSE IF includes(name, "cleanser") \/ includes(category, "cleanser")
             \/ includes(name, "wash") THEN "cleanser"
     ELSE IF includes(name, "serum") \/ includes(category, "serum") THEN "serum"
     ELSE IF includes(name, "moisturizer") \/ includes(name, "cream")
             \/ includes(category, "moisturizer") THEN "moisturizer"
     ELSE IF includes(name, "sunscreen") \/ includes(name, "spf")
             \/ includes(category, "sunscreen") THEN "sunscreen"
     ELSE IF includes(name, "toner") \/ includes(category, "toner") THEN "toner"
     ELSE IF includes(name, "exfoliant") \/ includes(name, "scrub")
             \/ includes(name, "peel") THEN "exfoliant"
     ELSE IF includes(name, "mask") \/ includes(category, "mask") THEN "mask"
     ELSE IF includes(name, "oil") /\ ~includes(name, "cleanser") THEN "oil"
     ELSE IF includes(name, "eye") \/ includes(name, "dark circle") THEN "eye_care"
     ELSE IF includes(name, "lip") THEN "lip_care"
     ELSE "treatment"

\* products.sort((a, b) => b.score - a.score): stable, highest score first
RECURSIVE sortByScore(_)
sortByScore(products) ==
  IF products = <<>> THEN <<>>
  ELSE LET front == sortByScore(SubSeq(products, 1, Len(products) - 1))
           last == products[Len(products)]
           keep == Cardinality({i \in 1..Len(front) : front[i].score >= last.score})
       IN SubSeq(front, 1, keep) \o <<last>> \o SubSeq(front, keep + 1, Len(front))

\* A JavaScript object used as a map is a sequence of entries in the
\* insertion order of their keys, which is the order of Object.entries.
hasKey(categories, cat) == \E i \in 1..Len(categories) : categories[i].category = cat

get(categories, cat) ==
  IF hasKey(categories, cat)
  THEN categories[CHOOSE i \in 1..Len(categories) : categories[i].category = cat].products
  ELSE <<>>

put(categories, cat, products) ==
  IF hasKey(categories, cat)
  THEN [i \in 1..Len(categories) |->
          IF categories[i].category = cat
          THEN [category |-> cat, products |-> products] ELSE categories[i]]
  ELSE Append(categories, [category |-> cat, products |-> products])

\* the forEach loop of groupProductsByCategory
RECURSIVE groupLoop(_, _)
groupLoop(products, maxPerCategory) ==
  IF products = <<>> THEN <<>>
  ELSE LET categories == groupLoop(SubSeq(products, 1, Len(products) - 1), maxPerCategory)
           scored == products[Len(products)]
           category == detectProductCategory(scored.product)
           list == get(categories, category)
       IN IF Len(list) < maxPerCategory
          THEN put(categories, category, Append(list, scored))
          ELSE put(categories, category, list)

keyCategories == <<"cleanser", "serum", "moisturizer">>

fitsKeyCategory(scored, cat) ==
  \/ includes(lowerName(scored.product), cat)
  \/ cat = "moisturizer" /\ includes(lowerName(scored.product), "cream")

\* the keyCategories.forEach loop: an absent or empty key category receives
\* the first product of the whole input whose name fits it
RECURSIVE backfill(_, _, _)
backfill(categories, products, n) ==
  IF n = 0 THEN categories
  ELSE LET done == backfill(categories, products, n - 1)
           cat == keyCategories[n]
           fits == Indices(products, LAMBDA p : fitsKeyCategory(p, cat))
       IN IF get(done, cat) = <<>> /\ fits # {}
          THEN put(done, cat, <<products[Min(fits)]>>)
          ELSE done

\* detectProductCategory raises for some product of the input
groupingRaises(products) == some(products, LAMBDA p : categoryRaises(p.product))

\* groupProductsByCategory without the backfill of the key categories
groupProductsByCategoryAsGrouped(products, maxPerCategory) ==
  groupLoop(products, maxPerCategory)

\* groupProductsByCategory without the cap on a category list
groupProductsByCategoryUncapped(products, maxPerCategory) ==
  backfill(groupLoop(products, Len(products) + 1), products, Len(keyCategories))

groupProductsByCategory(products, maxPerCategory) ==
  backfill(groupLoop(products, maxPerCategory), products, Len(keyCategories))

\* the products query of filterProductsForUser: price within the budget
\* range widened by 20%
productsQuery(table, budgetFilter, budgetRange) ==
  IF budgetFilter
  THEN filter(table, LAMBDA p : /\ p.price_mrp * 10 >= budgetRange[1] * 8
                                /\ p.price_mrp * 10 <= budgetRange[2] * 12)
  ELSE table

availableProduct(p) == [product |-> p, score |-> 10, matchReasons |-> <<"Available product">>]

\* filterProductsForUser; queryError is the error field of the query reply,
\* table the products table the query runs on
filterProductsForUser(aiAnalysis, userProfile, options, table, queryError) ==
  LET filterCriteria == extractFilterCriteria(aiAnalysis, userProfile)
      allProducts == productsQuery(table, options.budgetFilter, filterCriteria.budgetRange)
      filteredProducts ==
        sortByScore(filter(
          map(allProducts, LAMBDA product :
                scoreProduct(product, filterCriteria, options.strictIngredientFiltering)),
          LAMBDA product : product.score > 0))
      grouped == IF filteredProducts = <<>>
                 THEN map(allProducts, availableProduct)
                 ELSE filteredProducts
  IN IF queryError \/ groupingRaises(grouped)
     THEN Raised
     ELSE [raised |-> FALSE,
           filterCriteria |-> filterCriteria,
           productsByCategory |->
             groupProductsByCategory(grouped, options.maxProductsPerCategory),
           totalFiltered |-> Len(grouped)]

(***************************************************************************)
(* ai-analysis.service.js                                                  *)
(***************************************************************************)
Undefined == [kind |-> "undefined", str |-> ""]

\* The two shapes of record createFallbackRecommendations is called with.
\* A candidate of productsByType is the catalog record spread with its score.
catalogRecord(candidate) ==
  [product_id |-> JsStr(candidate.product.product_id),
   product_name |-> JsStr(candidate.product.product_name),
   category_path |-> candidate.product.category_path,
   ingredients_extracted |-> candidate.product.ingredients_extracted]

\* An entry of availableProducts has the fields id, name, brand, type, price
\* and ingredients; the fields createFallbackRecommendations reads are absent.
simplifiedRecord(available) ==
  [product_id |-> Undefined,
   product_name |-> Undefined,
   category_path |-> Undefined,
   ingredients_extracted |-> NoValue]

mapCategoryToProductType(category) ==
  CASE category = "cleanser" -> "cleanser"
    [] category = "serum" -> "serum"
    [] category = "moisturizer" -> "moisturizer"
    [] category = "sunscreen" -> "sunscreen"
    [] category = "toner" -> "toner"
    [] category = "exfoliant" -> "treatment"
    [] category = "mask" -> "treatment"
    [] category = "oil" -> "treatment"
    [] category = "other" -> "treatment"
    [] OTHER -> "treatment"

detectProductType(product) ==
  LET name == lowerName(product)
      category == lowerCategory(product)
  IN IF includes(name, "cleanser") \/ includes(category, "cleanser") THEN "cleanser"
     ELSE IF includes(name, "serum") \/ includes(category, "serum") THEN "serum"
     ELSE IF includes(name, "moisturizer") \/ includes(name, "cream") THEN "moisturizer"
     ELSE IF includes(name, "sunscreen") \/ includes(name, "spf") THEN "sunscreen"
     ELSE IF includes(name, "toner") THEN "toner"
     ELSE "treatment"

\* groupProductsByTypeForAI: raw catalog records, which carry no score
rawCandidate(p) == [product |-> p, score |-> 0, matchReasons |-> <<>>]

RECURSIVE groupProductsByTypeForAI(_)
groupProductsByTypeForAI(products) ==
  IF products = <<>> THEN <<>>
  ELSE LET grouped == groupProductsByTypeForAI(SubSeq(products, 1, Len(products) - 1))
           product == products[Len(products)]
           type == detectProductType(product)
       IN put(grouped, type, Append(get(grouped, type), rawCandidate(product)))

\* Step 2 of matchProductsWithAI: productsByType[mappedType] = products.map(...)
\* for each entry of productsByCategory, in the order of Object.entries
RECURSIVE convertToProductsByType(_)
convertToProductsByType(productsByCategory) ==
  IF productsByCategory = <<>> THEN <<>>
  ELSE LET productsByType ==
             convertToProductsByType(SubSeq(productsByCategory, 1, Len(productsByCategory) - 1))
           entry == productsByCategory[Len(productsByCategory)]
       IN put(productsByType, mapCategoryToProductType(entry.category), entry.products)

matchOptions ==
  [maxProductsPerCategory |-> 10, budgetFilter |-> TRUE, strictIngredientFiltering |-> FALSE]

\* Object.values(productsByType).flat()
RECURSIVE flat(_)
flat(productsByType) ==
  IF productsByType = <<>> THEN <<>>
  ELSE Head(productsByType).products \o flat(Tail(productsByType))

\* availableProducts of selectFinalProductsWithAI
typed(entry) ==
  map(entry.products, LAMBDA candidate :
    [id |-> candidate.product.product_id,
     name |-> candidate.product.product_name,
     type |-> entry.category,
     price |-> candidate.product.price_mrp,
     ingredients |-> candidate.product.ingredients_extracted])

RECURSIVE availableProducts(_)
availableProducts(productsByType) ==
  IF productsByType = <<>> THEN <<>>
  ELSE typed(Head(productsByType)) \o availableProducts(Tail(productsByType))

\* extractIngredientNames of ai-analysis.service.js: names of the objects of
\* an array, at most five; a string entry has no name
keyIngredientNames(ingredients) ==
  IF ingredients.kind = "objects"
  THEN LET names == filter(ingredients.items, LAMBDA name : Len(name) > 0)
       IN SubSeq(names, 1, IF Len(names) < 5 THEN Len(names) ELSE 5)
  ELSE <<>>

\* value?.toLowerCase().includes(word)
optIncludes(value, word) == value.kind = "str" /\ includes(toLowerCase(value.str), word)

\* JSON.stringify(ingredients_extracted || '').toLowerCase().includes('niacinamide')
hasNiacinamide(record) ==
  some(record.ingredients_extracted.items,
       LAMBDA i : includes(toLowerCase(i), "niacinamide"))

\* serums.sort((a, b) => bHasNiacinamide - aHasNiacinamide): stable
sortNiacinamide(serums) ==
  filter(serums, hasNiacinamide) \o filter(serums, LAMBDA s : ~hasNiacinamide(s))

routineItem(record, type, order) ==
  [productId |-> record.product_id,
   productName |-> record.product_name.str,
   productType |-> type,
   applicationOrder |-> order,
   keyIngredients |-> keyIngredientNames(record.ingredients_extracted)]

List(items) == [kind |-> "list", items |-> items]
Absent == [kind |-> "absent", items |-> <<>>]
NotAList == [kind |-> "notlist", items |-> <<>>]

\* value?.toLowerCase() raises when the value is a number
fallbackRaises(products) ==
  some(products, LAMBDA p : p.product_name.kind = "num" \/ p.category_path.kind = "num")

createFallbackRecommendations(products) ==
  LET cleansers == filter(products, LAMBDA p :
                     optIncludes(p.product_name, "cleanser")
                     \/ optIncludes(p.category_path, "cleanser"))
      serums == sortNiacinamide(filter(products, LAMBDA p :
                     optIncludes(p.product_name, "serum")
                     \/ optIncludes(p.category_path, "serum")))
      moisturizers == filter(products, LAMBDA p :
                     optIncludes(p.product_name, "moisturizer")
                     \/ optIncludes(p.product_name, "cream")
                     \/ optIncludes(p.category_path, "moisturizer"))
      second(list) == IF Len(list) > 1 THEN list[2] ELSE list[1]
      morningProducts ==
        (IF Len(cleansers) > 0 THEN <<routineItem(cleansers[1], "cleanser", 1)>> ELSE <<>>)
        \o (IF Len(serums) > 0 THEN <<routineItem(serums[1], "serum", 2)>> ELSE <<>>)
        \o (IF Len(moisturizers) > 0
            THEN <<routineItem(moisturizers[1], "moisturizer", 3)>> ELSE <<>>)
      eveningProducts ==
        (IF Len(cleansers) > 0
         THEN <<routineItem(second(cleansers), "cleanser", 1)>> ELSE <<>>)
        \o (IF Len(serums) > 0
            THEN <<routineItem(second(serums), "treatment", 2)>> ELSE <<>>)
  IN [raised |-> FALSE,
      morningRoutine |-> List(morningProducts),
      eveningRoutine |-> List(eveningProducts)]

\* parseTextResponse: the forEach loop over availableProducts
RECURSIVE parseTextResponse(_, _)
parseTextResponse(text, available) ==
  IF available = <<>>
  THEN [raised |-> FALSE, morningRoutine |-> List(<<>>), eveningRoutine |-> List(<<>>)]
  ELSE LET recommendations ==
             parseTextResponse(text, SubSeq(available, 1, Len(available) - 1))
           product == available[Len(available)]
           morning == recommendations.morningRoutine.items
           evening == recommendations.eveningRoutine.items
           routineProduct == [productId |-> JsStr(product.id),
                              productName |-> product.name,
                              productType |-> product.type,
                              applicationOrder |-> Len(morning) + 1,
                              keyIngredients |-> <<>>]
       IN IF ~(includes(text, product.name) \/ includes(text, product.id))
          THEN recommendations
          ELSE IF includes(toLowerCase(text), "morning") /\ Len(morning) < 4
          THEN [recommendations EXCEPT !.morningRoutine = List(Append(morning, routineProduct))]
          ELSE IF Len(evening) < 4
          THEN [recommendations EXCEPT !.eveningRoutine = List(Append(evening, routineProduct))]
          ELSE recommendations

\* new Set(availableProducts.map(p => p.id))
validProductIds(available) == {JsStr(available[i].id) : i \in 1..Len(available)}

\* validated without the filter: every item the model named is kept
validatedKeepsAll(routine, validIds) == routine

\* validated that renumbers the steps of the items it keeps
validatedRenumbers(routine, validIds) ==
  IF routine.kind = "list"
  THEN LET kept == filter(routine.items, LAMBDA p : p.productId \in validIds)
       IN List([i \in 1..Len(kept) |-> [kept[i] EXCEPT !.applicationOrder = i]])
  ELSE routine

\* routine.filter(p => validProductIds.has(p.productId)), applied when the
\* routine is present
validated(routine, validIds) ==
  IF routine.kind = "list"
  THEN List(filter(routine.items, LAMBDA p : p.productId \in validIds))
  ELSE routine

\* the catch block around JSON.parse: the fallback is built from
\* availableProducts
parseFailed(available) ==
  createFallbackRecommendations(map(available, simplifiedRecord))

\* callFailed building the fallback from availableProducts, as the catch
\* block around JSON.parse does
callFailedOnAvailable(productsByType) ==
  createFallbackRecommendations(map(availableProducts(productsByType), simplifiedRecord))

\* the catch block of selectFinalProductsWithAI: the fallback is built from
\* Object.values(productsByType).flat()
callFailed(productsByType) ==
  LET candidates == map(flat(productsByType), catalogRecord)
  IN IF fallbackRaises(candidates) THEN Raised
     ELSE createFallbackRecommendations(candidates)

\* The reply of models.recommendation.generateContent:
\*   throw    the call rejects (timeout, transport error, non-2xx)
\*   json     the text embeds a {...} span that JSON.parse accepts
\*   badjson  the text embeds a {...} span that JSON.parse rejects
\*   text     the text embeds no {...} span
\* selectFinalProductsWithAI returns the recommendations, or Raised when the
\* catch block itself raises.  A routine that is present but not an array
\* has no filter method: the TypeError ends in the catch block.
selectFinalProductsWithAI(productsByType, reply) ==
  LET available == availableProducts(productsByType)
      recommendations ==
        CASE reply.kind = "json" ->
               [raised |-> FALSE, morningRoutine |-> reply.morningRoutine,
                eveningRoutine |-> reply.eveningRoutine]
          [] reply.kind = "text" -> parseTextResponse(reply.text, available)
          [] OTHER -> parseFailed(available)
      validIds == validProductIds(available)
  IN IF \/ reply.kind = "throw"
        \/ recommendations.morningRoutine.kind = "notlist"
        \/ recommendations.eveningRoutine.kind = "notlist"
     THEN callFailed(productsByType)
     ELSE [raised |-> FALSE,
           morningRoutine |-> validated(recommendations.morningRoutine, validIds),
           eveningRoutine |-> validated(recommendations.eveningRoutine, validIds)]

\* Step 1 of matchProductsWithAI: filterProductsForUser with the options
\* matchProductsWithAI passes; Raised when filterProductsForUser raises
filterForMatch(aiAnalysis, userProfile, table, queryError) ==
  filterProductsForUser(aiAnalysis, userProfile, matchOptions, table, queryError)

(***************************************************************************)
(* Inputs: the products table, the user's beauty profile, the upstream     *)
(* analysis and the replies of the generative model.                       *)
(***************************************************************************)
Product(id, name, category, price, rating, ingredients, benefits) ==
  [product_id |-> id, product_name |-> name, category_path |-> category,
   price_mrp |-> price, rating_avg |-> rating,
   ingredients_extracted |-> ingredients, benefits_extracted |-> benefits]

\* the rows of the products table, in table order
ProductRows ==
  << Product("p1", "Gentle Cleanser", JsStr("Skincare/Cleanser"), 25, 4,
             Strings(<<"Glycerin">>), Strings(<<"Hydrating">>)),
     Product("p2", "Acne Serum", JsNull, 30, 3,
             Strings(<<"Salicylic Acid", "Fragrance">>), NoValue),
     Product("p3", "Glow Serum", JsStr("Skincare/Serum"), 45, 5,
             Objects(<<"Niacinamide">>), SingleString("oil-control")),
     Product("p4", "Night Cream", JsStr("Skincare"), 55, 3,
             IngredientsList(<<"Fragrance Oil">>), NoValue),
     Product("p5", "Clay Mask", JsStr("Skincare/Mask"), 20, 0,
             NoValue, NoValue),
     Product("p6", "Lip Scrub", JsNull, 15, 4,
             Strings(<<"Sugar">>), NoValue),
     Product("p7", "Body Oil", JsNum, 35, 0,
             Strings(<<"Fragrance">>), NoValue) >>

\* the tables of at most MaxCatalog rows, rows in table order
Catalogs ==
  LET picks == {S \in SUBSET (1..Len(ProductRows)) : Cardinality(S) <= MaxCatalog}
  IN {filter(ProductRows, LAMBDA p : \E i \in S : ProductRows[i] = p) : S \in picks}

Profiles ==
  { [skin_type |-> "Oily & Shiny", known_allergies |-> <<JsStr("fragrance")>>,
     budget_range |-> "budget", primary_skin_concerns |-> <<"acne">>],
    [skin_type |-> "Dry & Tight", known_allergies |-> <<>>,
     budget_range |-> "luxury", primary_skin_concerns |-> <<>>] }

\* createDefaultAnalysis
createDefaultAnalysis(profileData) ==
  [hasIngredientRecommendations |-> TRUE,
   mustHave |-> <<"Niacinamide", "Hyaluronic Acid">>,
   beneficial |-> <<"Vitamin C", "Retinol">>,
   avoid |-> profileData.known_allergies,
   hasTreatmentPlan |-> TRUE]

\* what performComprehensiveAnalysis can return: the default analysis (the
\* call failed), the analysis built from a text reply, or the object the
\* model returned as JSON, whose shape is the model's choice
AnalysisOutcomes(profileData) ==
  { createDefaultAnalysis(profileData),
    [hasIngredientRecommendations |-> TRUE,
     mustHave |-> IF "acne" \in Range(profileData.primary_skin_concerns)
                  THEN <<"Salicylic Acid", "Niacinamide">> ELSE <<>>,
     beneficial |-> <<>>,
     avoid |-> profileData.known_allergies \o <<JsStr("fragrance"), JsStr("alcohol")>>,
     hasTreatmentPlan |-> TRUE],
    [hasIngredientRecommendations |-> TRUE,
     mustHave |-> <<"Glycerin">>,
     beneficial |-> <<"Sugar">>,
     avoid |-> <<JsObj, JsStr("Fragrance")>>,
     hasTreatmentPlan |-> FALSE],
    [hasIngredientRecommendations |-> FALSE,
     mustHave |-> <<>>, beneficial |-> <<>>, avoid |-> <<>>,
     hasTreatmentPlan |-> FALSE] }

NoAnalysis ==
  [hasIngredientRecommendations |-> FALSE,
   mustHave |-> <<>>, beneficial |-> <<>>, avoid |-> <<>>,
   hasTreatmentPlan |-> FALSE]

\* an identifier the model invents: no row of the products table has it
InventedId == "p0"

modelItem(id, order) ==
  [productId |-> JsStr(id), productName |-> "as named by the model",
   productType |-> "serum", applicationOrder |-> order, keyIngredients |-> <<>>]

\* the routines of at most n items the model can name over the given ids
ModelRoutines(ids, n) ==
  {Absent, NotAList} \cup
  UNION {{List([i \in 1..k |-> modelItem(ids_[i], i)]) : ids_ \in [1..k -> ids]} : k \in 0..n}

JsonReply(morning, evening) ==
  [kind |-> "json", text |-> "", morningRoutine |-> morning, eveningRoutine |-> evening]

TextReply(text) ==
  [kind |-> "text", text |-> text, morningRoutine |-> Absent, eveningRoutine |-> Absent]

OtherReply(kind) ==
  [kind |-> kind, text |-> "", morningRoutine |-> Absent, eveningRoutine |-> Absent]

NoReply == OtherReply("none")

\* free texts without a {...} span, naming products by id or by name
ModelTexts(available) ==
  LET openings == {"For the Morning use ", "Use "}
      named == {"nothing"} \cup {available[i].id : i \in 1..Len(available)}
               \cup {available[i].name : i \in 1..Len(available)}
               \cup {available[i].id \o " then " \o available[j].name :
                       i, j \in 1..Len(available)}
  IN {o \o n : o \in openings, n \in named}

\* the size of a routine of a reply: its items, 1 for a routine that is
\* absent or not an array
size(routine) == IF routine.kind = "list" THEN Len(routine.items) ELSE 1

\* the replies of the generative model to the selection prompt: JSON objects
\* whose routines have a size of at most MaxItems together, free texts, a
\* span that does not parse and a failed call
Replies(productsByType) ==
  LET available == availableProducts(productsByType)
      ids == {available[i].id : i \in 1..Len(available)} \cup {InventedId}
      routines == ModelRoutines(ids, MaxItems)
  IN {JsonReply(pair[1], pair[2]) : pair \in
        {q \in routines \X routines : size(q[1]) + size(q[2]) <= MaxItems}}
     \cup {TextReply(t) : t \in ModelTexts(available)}
     \cup {OtherReply("badjson"), OtherReply("throw")}

(***************************************************************************)
(* analysis.controller.js: one run of performFullAnalysisAsync.  Every     *)
(* action is the code between two awaits.                                  *)
(***************************************************************************)
VARIABLES
  pc,                     \* the await the run is suspended at
  analysisStatus,         \* analysisStatus[analysisId]
  table,                  \* the rows of the products table
  profile,                \* the user's beauty profile
  analysis,               \* comprehensiveAnalysis
  productsByType,         \* matchedProducts
  reply,                  \* the reply of the generative model
  recommendations,        \* finalRecommendations
  recommendationRecords,  \* the records saveRecommendations prepared
  productRecommendations, \* the rows of the product_recommendations table
  guarded,                \* the controller is the copy that refuses to insert no records
  options,                \* the options filterProductsForUser is called with
  filterResult,           \* filterResults: what filterProductsForUser returned
  args,                   \* the arguments of a function called on its own
  result,                 \* the value that call returned
  invitation,             \* the row of invitations the code names
  users                   \* the rows register inserted into users

vars == <<pc, analysisStatus, table, profile, analysis, productsByType, reply,
          recommendations, recommendationRecords, productRecommendations,
          guarded, options, filterResult, args, result, invitation, users>>

\* No invitation is looked at.
NoInvitation == [status |-> "none", invitee_user_id |-> "null"]

NoStatus == [status |-> "none", progress |-> 0, current_step |-> "", error |-> ""]

NoRecommendations == [raised |-> FALSE, morningRoutine |-> Absent, eveningRoutine |-> Absent]

NoFilterResult == [raised |-> FALSE, filterCriteria |-> <<>>,
                   productsByCategory |-> <<>>, totalFiltered |-> 0]

\* no function is called on its own
NoArgs == [function |-> "none"]

NoResult == [raised |-> FALSE]

\* the recommendations an earlier run of the user left active
EarlierRecords ==
  {[analysis_id |-> "earlier", product_id |-> JsStr("p1"), routine_time |-> "morning",
    routine_step |-> 1, is_active |-> TRUE]}

\* updateAnalysisStatus
updateAnalysisStatus(entry, step, progress) ==
  IF entry.status = "none" THEN entry
  ELSE [entry EXCEPT !.progress = progress, !.current_step = "Processing " \o step]

\* the catch block writing a fresh entry instead of spreading the old one
failedAfresh(entry, message) ==
  [status |-> "failed", progress |-> 0, current_step |-> "", error |-> message]

\* the catch block of performFullAnalysisAsync
failed(entry, message) == [entry EXCEPT !.status = "failed", !.error = message]

\* the "Complete" block of performFullAnalysisAsync
completed(entry) ==
  [entry EXCEPT !.status = "completed", !.progress = 100,
                !.current_step = "Analysis complete"]

QueryFailed == "query failed"
InsertRejected == "insert rejected"
NotAFunction == "toLowerCase is not a function"
ReadOfUndefined == "Cannot read properties of undefined (reading 'map')"
NothingToSave == "No valid product recommendations could be generated"

Init ==
  /\ pc = "idle"
  /\ analysisStatus = NoStatus
  /\ table \in Catalogs
  /\ profile \in Profiles
  /\ analysis = NoAnalysis
  /\ productsByType = <<>>
  /\ reply = NoReply
  /\ recommendations = NoRecommendations
  /\ recommendationRecords = {}
  /\ productRecommendations = EarlierRecords
  /\ guarded \in BOOLEAN
  /\ options = matchOptions
  /\ filterResult = NoFilterResult
  /\ args = NoArgs
  /\ result = NoResult
  /\ invitation = NoInvitation
  /\ users = {}

\* triggerAnalysis: the status entry is created and performFullAnalysisAsync
\* runs up to its first await
triggerAnalysis ==
  /\ pc = "idle"
  /\ analysisStatus' =
       updateAnalysisStatus(
         [status |-> "processing", progress |-> 0,
          current_step |-> "Initializing analysis", error |-> ""],
         "profile_analysis", 15)
  /\ pc' = "performComprehensiveAnalysis"
  /\ UNCHANGED <<table, profile, analysis, productsByType, reply, recommendations,
                 recommendationRecords, productRecommendations, guarded, options,
                 filterResult>>
  /\ UNCHANGED <<args, result, invitation, users>>

\* performComprehensiveAnalysis returned (it catches its own errors)
analysisReturned ==
  /\ pc = "performComprehensiveAnalysis"
  /\ \E a \in AnalysisOutcomes(profile) : analysis' = a
  /\ analysisStatus' = updateAnalysisStatus(analysisStatus, "saving_analysis", 25)
  /\ pc' = "saveAIAnalysisResults"
  /\ UNCHANGED <<table, profile, productsByType, reply, recommendations,
                 recommendationRecords, productRecommendations, guarded, options,
                 filterResult>>
  /\ UNCHANGED <<args, result, invitation, users>>

\* saveAIAnalysisResults returned or raised: the error is logged and the run
\* goes on; matchProductsWithAI issues the catalog query
analysisSaved ==
  /\ pc = "saveAIAnalysisResults"
  /\ analysisStatus' = updateAnalysisStatus(analysisStatus, "rule_based_filtering", 45)
  /\ pc' = "catalogQuery"
  /\ UNCHANGED <<table, profile, analysis, productsByType, reply, recommendations,
                 recommendationRecords, productRecommendations, guarded, options,
                 filterResult>>
  /\ UNCHANGED <<args, result, invitation, users>>

\* the catalog query of filterProductsForUser replied
catalogReplied ==
  /\ pc = "catalogQuery"
  /\ \E queryError \in BOOLEAN :
       \E filterResults \in {filterForMatch(analysis, profile, table, queryError)} :
          /\ filterResult' = filterResults
          /\ IF filterResults.raised
             THEN /\ analysisStatus' =
                       failed(analysisStatus,
                              IF queryError THEN QueryFailed ELSE NotAFunction)
                  /\ pc' = "done"
                  /\ UNCHANGED productsByType
             ELSE IF filterResults.totalFiltered = 0
             THEN /\ pc' = "fallbackQuery"
                  /\ UNCHANGED <<analysisStatus, productsByType>>
             ELSE /\ productsByType' =
                       convertToProductsByType(filterResults.productsByCategory)
                  /\ analysisStatus' =
                       updateAnalysisStatus(analysisStatus, "ai_product_selection", 65)
                  /\ pc' = "generateContent"
  /\ UNCHANGED <<table, profile, analysis, reply, recommendations,
                 recommendationRecords, productRecommendations, guarded, options>>
  /\ UNCHANGED <<args, result, invitation, users>>

\* the query for fallback products of matchProductsWithAI replied; on an
\* error its data is null and no product is grouped
fallbackReplied ==
  /\ pc = "fallbackQuery"
  /\ \E queryError \in BOOLEAN :
       LET fallbackProducts == IF queryError THEN <<>> ELSE table
       IN IF some(fallbackProducts, categoryRaises)
          THEN /\ analysisStatus' = failed(analysisStatus, NotAFunction)
               /\ pc' = "done"
               /\ UNCHANGED productsByType
          ELSE /\ productsByType' = groupProductsByTypeForAI(fallbackProducts)
               /\ analysisStatus' =
                    updateAnalysisStatus(analysisStatus, "ai_product_selection", 65)
               /\ pc' = "generateContent"
  /\ UNCHANGED <<table, profile, analysis, reply, recommendations,
                 recommendationRecords, productRecommendations, guarded, options,
                 filterResult>>
  /\ UNCHANGED <<args, result, invitation, users>>

\* generateContent settled: selectFinalProductsWithAI returns and
\* saveRecommendations issues the update that deactivates the old records
modelReplied ==
  /\ pc = "generateContent"
  /\ \E r \in Replies(productsByType) :
       LET final == selectFinalProductsWithAI(productsByType, r)
       IN /\ reply' = r
          /\ IF final.raised
             THEN /\ analysisStatus' = failed(analysisStatus, NotAFunction)
                  /\ pc' = "done"
                  /\ UNCHANGED recommendations
             ELSE /\ recommendations' = final
                  /\ analysisStatus' =
                       updateAnalysisStatus(analysisStatus, "routine_optimization", 85)
                  /\ pc' = "deactivate"
  /\ UNCHANGED <<table, profile, analysis, productsByType, recommendationRecords,
                 productRecommendations, guarded, options, filterResult>>
  /\ UNCHANGED <<args, result, invitation, users>>

\* generateContent never settles: the await has no timeout
modelHangs ==
  /\ pc = "generateContent"
  /\ pc' = "hung"
  /\ UNCHANGED <<analysisStatus, table, profile, analysis, productsByType, reply,
                 recommendations, recommendationRecords, productRecommendations,
                 guarded, options, filterResult>>
  /\ UNCHANGED <<args, result, invitation, users>>

deactivate(rows) == {[row EXCEPT !.is_active = FALSE] : row \in rows}

routineIds(routine) == {routine.items[i].productId : i \in 1..Len(routine.items)}

\* the update of the old records replied (its error is not looked at);
\* allProductIds is built and the verification query is issued
deactivated ==
  /\ pc = "deactivate"
  /\ \E updateError \in BOOLEAN :
       productRecommendations' =
         IF updateError THEN productRecommendations
         ELSE deactivate(productRecommendations)
  /\ IF recommendations.morningRoutine.kind = "absent"
        \/ recommendations.eveningRoutine.kind = "absent"
     THEN /\ analysisStatus' = failed(analysisStatus, ReadOfUndefined)
          /\ pc' = "done"
     ELSE /\ pc' = "verify"
          /\ UNCHANGED analysisStatus
  /\ reply' = NoReply
  /\ UNCHANGED <<table, profile, analysis, productsByType, recommendations,
                 recommendationRecords, guarded, options, filterResult>>
  /\ UNCHANGED <<args, result, invitation, users>>

\* the product ids of the routines that the products table holds
existingProducts(rows, allProductIds) ==
  {JsStr(rows[i].product_id) : i \in 1..Len(rows)} \cap allProductIds

record(item, routine_time) ==
  [analysis_id |-> "current", product_id |-> item.productId,
   routine_time |-> routine_time, routine_step |-> item.applicationOrder,
   is_active |-> TRUE]

records(routine, routine_time, validIds) ==
  {record(routine.items[i], routine_time) :
     i \in {j \in 1..Len(routine.items) : routine.items[j].productId \in validIds}}

\* the verification query replied; the records are built and the insert is
\* issued.  Building a record reads aiAnalysis.treatmentPlan.priorities, with
\* optional chaining in the guarded copy of the controller only.
verified ==
  /\ pc = "verify"
  /\ \E productCheckError \in BOOLEAN :
       LET allProductIds == routineIds(recommendations.morningRoutine)
                            \cup routineIds(recommendations.eveningRoutine)
           validIds == IF productCheckError THEN {}
                       ELSE existingProducts(table, allProductIds)
           built == records(recommendations.morningRoutine, "morning", validIds)
                    \cup records(recommendations.eveningRoutine, "evening", validIds)
       IN IF built # {} /\ ~analysis.hasTreatmentPlan /\ ~guarded
          THEN /\ analysisStatus' = failed(analysisStatus, ReadOfUndefined)
               /\ pc' = "done"
               /\ UNCHANGED recommendationRecords
          ELSE IF built = {} /\ guarded
          THEN /\ analysisStatus' = failed(analysisStatus, NothingToSave)
               /\ pc' = "done"
               /\ UNCHANGED recommendationRecords
          ELSE /\ recommendationRecords' = built
               /\ pc' = "insert"
               /\ UNCHANGED analysisStatus
  /\ UNCHANGED <<table, profile, analysis, productsByType, reply, recommendations,
                 productRecommendations, guarded, options, filterResult>>
  /\ UNCHANGED <<args, result, invitation, users>>

\* the insert replied: an error is thrown, else the profile update is issued
inserted ==
  /\ pc = "insert"
  /\ \E error \in BOOLEAN :
       IF error
       THEN /\ analysisStatus' = failed(analysisStatus, InsertRejected)
            /\ pc' = "done"
            /\ UNCHANGED productRecommendations
       ELSE /\ productRecommendations' = productRecommendations \cup recommendationRecords
            /\ pc' = "profileUpdate"
            /\ UNCHANGED analysisStatus
  /\ UNCHANGED <<table, profile, analysis, productsByType, reply, recommendations,
                 recommendationRecords, guarded, options, filterResult>>
  /\ UNCHANGED <<args, result, invitation, users>>

\* the update of beauty_profiles replied: the run is complete
profileUpdated ==
  /\ pc = "profileUpdate"
  /\ analysisStatus' = completed(analysisStatus)
  /\ pc' = "done"
  /\ UNCHANGED <<table, profile, analysis, productsByType, reply, recommendations,
                 recommendationRecords, productRecommendations, guarded, options,
                 filterResult>>
  /\ UNCHANGED <<args, result, invitation, users>>

Next ==
  \/ triggerAnalysis
  \/ analysisReturned
  \/ analysisSaved
  \/ catalogReplied
  \/ fallbackReplied
  \/ modelReplied
  \/ modelHangs
  \/ deactivated
  \/ verified
  \/ inserted
  \/ profileUpdated

Spec == Init /\ [][Next]_vars

(***************************************************************************)
(* filterProductsForUser called with any options.                          *)
(***************************************************************************)
FilterOptions ==
  [maxProductsPerCategory : {1, 10}, budgetFilter : BOOLEAN,
   strictIngredientFiltering : BOOLEAN]

FilterInit ==
  /\ pc = "filterProductsForUser"
  /\ analysisStatus = NoStatus
  /\ table \in Catalogs
  /\ profile \in Profiles
  /\ analysis \in AnalysisOutcomes(profile)
  /\ productsByType = <<>>
  /\ reply = NoReply
  /\ recommendations = NoRecommendations
  /\ recommendationRecords = {}
  /\ productRecommendations = EarlierRecords
  /\ guarded = FALSE
  /\ options \in FilterOptions
  /\ filterResult = NoFilterResult
  /\ args = NoArgs
  /\ result = NoResult
  /\ invitation = NoInvitation
  /\ users = {}

filterCalled ==
  /\ pc = "filterProductsForUser"
  /\ \E queryError \in BOOLEAN :
       filterResult' = filterProductsForUser(analysis, profile, options, table, queryError)
  /\ pc' = "returned"
  /\ UNCHANGED <<analysisStatus, table, profile, analysis, productsByType, reply,
                 recommendations, recommendationRecords, productRecommendations,
                 guarded, options>>
  /\ UNCHANGED <<args, result, invitation, users>>

FilterNext == filterCalled

FilterSpec == FilterInit /\ [][FilterNext]_vars

(***************************************************************************)
(* Properties                                                              *)
(***************************************************************************)
\* selectFinalProductsWithAI has returned and saveRecommendations has not
\* yet resumed: the reply and the recommendations built from it are both
\* in the state
selected == pc = "deactivate"

\* the product_id values of the candidates passed to the selection step
candidateIds == {JsStr(c.product.product_id) : c \in Range(flat(productsByType))}

recommendedIds ==
  routineIds(recommendations.morningRoutine) \cup routineIds(recommendations.eveningRoutine)

\* C1: every productId of the morning and the evening routine returned by
\* selectFinalProductsWithAI is the product_id of a candidate of the
\* productsByType passed to it, whichever path built the recommendation.
C1_IdentifierIntegrity == recommendedIds \subseteq candidateIds

\* C1 witness: the model named an invented id next to real ones and a
\* non-empty recommendation was returned
C1_Witness ==
  /\ selected
  /\ reply.kind = "json"
  /\ JsStr(InventedId) \in routineIds(reply.morningRoutine)
  /\ recommendedIds # {}

\* the fallback FallbackComposer builds from the flattened candidate set
fallbackOfCandidates ==
  createFallbackRecommendations(map(flat(productsByType), catalogRecord))

\* C4: when generateContent throws, the recommendation returned is
\* createFallbackRecommendations of the flattened candidates: it is a
\* function of the candidate set alone.
C4_CallFailureGivesFallback ==
  (selected /\ reply.kind = "throw") => recommendations = fallbackOfCandidates

\* C4 witness: the call failed with two serums among the candidates, the one
\* with niacinamide second in the input and first in the morning routine
C4_Witness ==
  /\ selected
  /\ reply.kind = "throw"
  /\ Len(get(productsByType, "serum")) = 2
  /\ some(recommendations.morningRoutine.items, LAMBDA item :
          /\ item.productType = "serum"
          /\ item.productId = JsStr(get(productsByType, "serum")[2].product.product_id))

\* the i-th item, in order, of those the allow-list admits
keptIndices(items) == {i \in 1..Len(items) : items[i].productId \in candidateIds}

nth(S, k) == CHOOSE i \in S : Cardinality({j \in S : j <= i}) = k

onlyRemoves(raw, out) ==
  IF raw.kind = "list"
  THEN /\ out.kind = "list"
       /\ Len(out.items) = Cardinality(keptIndices(raw.items))
       /\ \A k \in 1..Len(out.items) :
            out.items[k] = raw.items[nth(keptIndices(raw.items), k)]
  ELSE out = raw

\* C9: validation only removes: each validated routine consists of exactly
\* the items of the model's routine whose productId is in the allow-list,
\* unchanged and in the model's order.
C9_ValidationOnlyRemoves ==
  (/\ selected
   /\ reply.kind = "json"
   /\ reply.morningRoutine.kind # "notlist"
   /\ reply.eveningRoutine.kind # "notlist")
  => /\ onlyRemoves(reply.morningRoutine, recommendations.morningRoutine)
     /\ onlyRemoves(reply.eveningRoutine, recommendations.eveningRoutine)

\* C9 witness: an invented id ahead of a real one was removed and the real
\* one kept with the step number the model gave it
C9_Witness ==
  /\ selected
  /\ reply.kind = "json"
  /\ Len(reply.morningRoutine.items) = 2
  /\ reply.morningRoutine.items[1].productId = JsStr(InventedId)
  /\ Len(recommendations.morningRoutine.items) = 1
  /\ recommendations.morningRoutine.items[1].applicationOrder = 2

nonEmpty(routine) == routine.kind = "list" /\ routine.items # <<>>

\* C5: when the model's text holds no JSON object that parses, the
\* recommendation returned is the deterministic fallback built from the
\* candidate set, and it is not empty when the candidates hold a cleanser, a
\* serum or a moisturizer.
C5_ParseFailureGivesFallback ==
  (selected /\ reply.kind \in {"badjson", "text"})
  => /\ recommendations = fallbackOfCandidates
     /\ (\E type \in Range(keyCategories) : get(productsByType, type) # <<>>)
          => (nonEmpty(recommendations.morningRoutine)
              \/ nonEmpty(recommendations.eveningRoutine))

allowList == validProductIds(availableProducts(productsByType))

\* a routine left with fewer than 2 items is replaced by its fallback, a
\* routine left with 2 or more is kept as validated
degradesAlone(raw, out, fallback) ==
  LET kept == validated(raw, allowList)
  IN IF Len(kept.items) < 2 THEN out = fallback ELSE out = kept

\* C6: a routine that validation leaves with fewer than 2 items is replaced,
\* that routine alone, by the fallback routine; the other routine is kept as
\* the model selected it when it still has 2 items or more.
C6_UnderfilledRoutineReplaced ==
  (/\ selected
   /\ reply.kind = "json"
   /\ reply.morningRoutine.kind = "list"
   /\ reply.eveningRoutine.kind = "list")
  => /\ degradesAlone(reply.morningRoutine, recommendations.morningRoutine,
                      fallbackOfCandidates.morningRoutine)
     /\ degradesAlone(reply.eveningRoutine, recommendations.eveningRoutine,
                      fallbackOfCandidates.eveningRoutine)

\* the catalog query returns a cleanser, a serum and a moisturizer
essentialsInCatalog ==
  \A cat \in Range(keyCategories) :
    some(productsQuery(table, TRUE, getBudgetRange(profile.budget_range)),
         LAMBDA p : ~categoryRaises(p) /\ detectProductCategory(p) = cat)

\* C3: with every write accepted and a cleanser, a serum and a moisturizer
\* in the catalog, a run ends completed with both routines non-empty,
\* whatever the model replied.
C3_AlwaysCompleted ==
  (/\ pc = "done"
   /\ essentialsInCatalog
   /\ analysisStatus.error \notin {InsertRejected, QueryFailed})
  => /\ analysisStatus.status = "completed"
     /\ nonEmpty(recommendations.morningRoutine)
     /\ nonEmpty(recommendations.eveningRoutine)

\* C7: a run is failed only when the insert of the recommendation records
\* was rejected.
C7_FailedOnlyOnRejectedWrite ==
  analysisStatus.status = "failed" => analysisStatus.error = InsertRejected

\* C10: every candidate of the productsByCategory that filterProductsForUser
\* returned is in the productsByType that matchProductsWithAI returns.
C10_NoCandidateOmitted ==
  pc = "generateContent"
  => Range(flat(filterResult.productsByCategory)) \subseteq Range(flat(productsByType))

\* the product has a normalized ingredient that contains an avoid entry
leaks(product, criteria) ==
  /\ ~extractionRaises(product.ingredients_extracted)
  /\ \E a \in Range(criteria.avoidIngredients) : avoidMatches(product, a)

\* C2: under strictIngredientFiltering no product of the returned
\* productsByCategory has a normalized ingredient containing an entry of
\* criteria.avoidIngredients.
C2_NoAvoidedIngredientUnderStrict ==
  (/\ pc = "returned"
   /\ options.strictIngredientFiltering
   /\ ~filterResult.raised)
  => \A c \in Range(flat(filterResult.productsByCategory)) :
       ~leaks(c.product, filterResult.filterCriteria)

\* C8: a run whose generative call never settles does not stay processing
\* for ever: a step of the run (the timeout of the call) resumes it.
C8_HungCallIsResumed == pc = "hung" => ENABLED Next

(***************************************************************************)
(* Functions called on their own: args holds the arguments, result the     *)
(* value returned; the variables of the run stay at rest.                  *)
(***************************************************************************)
NoProfile ==
  [skin_type |-> "", known_allergies |-> <<>>, budget_range |-> "",
   primary_skin_concerns |-> <<>>]

atRest ==
  /\ analysisStatus = NoStatus
  /\ table = <<>>
  /\ profile = NoProfile
  /\ analysis = NoAnalysis
  /\ productsByType = <<>>
  /\ reply = NoReply
  /\ recommendations = NoRecommendations
  /\ recommendationRecords = {}
  /\ productRecommendations = {}
  /\ guarded = FALSE
  /\ options = matchOptions
  /\ filterResult = NoFilterResult
  /\ invitation = NoInvitation
  /\ users = {}

restUnchanged ==
  UNCHANGED <<analysisStatus, table, profile, analysis, productsByType, reply,
              recommendations, recommendationRecords, productRecommendations,
              guarded, options, filterResult, invitation, users>>

\* the lists of at most n of the given rows, in the order of the rows
Selections(rows, n) ==
  LET picks == {S \in SUBSET (1..Len(rows)) : Cardinality(S) <= n}
  IN {[k \in 1..Cardinality(S) |-> rows[nth(S, k)]] : S \in picks}

(***************************************************************************)
(* createFallbackRecommendations called on its own, with the two shapes of *)
(* record its callers pass.                                                *)
(***************************************************************************)
\* a cleanser by detectProductCategory (its name contains 'wash') whose name
\* and category do not contain 'cleanser'
FaceWash ==
  Product("p8", "Foaming Face Wash", JsStr("Skincare"), 18, 3,
          Strings(<<"Glycerin">>), NoValue)

\* the records createFallbackRecommendations receives for the candidates:
\* the catalog records from the catch block of selectFinalProductsWithAI, the
\* entries of availableProducts from the catch block around JSON.parse
fallbackRecords(products, shape) ==
  IF shape = "catalog"
  THEN map(products, LAMBDA p : catalogRecord(rawCandidate(p)))
  ELSE map(products, simplifiedRecord)

FallbackInit ==
  /\ pc = "createFallbackRecommendations"
  /\ atRest
  /\ args \in [function : {"createFallbackRecommendations"},
               products : Selections(ProductRows \o <<FaceWash>>, MaxCatalog),
               shape : {"catalog", "available"}]
  /\ result = NoResult

fallbackCalled ==
  /\ pc = "createFallbackRecommendations"
  /\ \E products \in {fallbackRecords(args.products, args.shape)} :
       result' = IF fallbackRaises(products) THEN Raised
                 ELSE createFallbackRecommendations(products)
  /\ pc' = "returned"
  /\ restUnchanged
  /\ UNCHANGED args

FallbackNext == fallbackCalled

FallbackSpec == FallbackInit /\ [][FallbackNext]_vars

\* detectProductCategory assigns the category to a product of the list
inCategory(products, cat) ==
  some(products, LAMBDA p : ~categoryRaises(p) /\ detectProductCategory(p) = cat)

\* C11: for candidates whose cleanser, serum and moisturizer categories (by
\* detectProductCategory) are each non-empty, createFallbackRecommendations
\* returns a morning routine of exactly three items of the types cleanser,
\* serum and moisturizer, for catalog records and for availableProducts
\* entries alike.
C11_FallbackMorningComplete ==
  (/\ pc = "returned"
   /\ args.function = "createFallbackRecommendations"
   /\ \A cat \in Range(keyCategories) : inCategory(args.products, cat))
  => /\ ~result.raised
     /\ map(result.morningRoutine.items, LAMBDA item : item.productType)
          = <<"cleanser", "serum", "moisturizer">>

(***************************************************************************)
(* scoreProduct called on a batch of products, as the map of               *)
(* filterProductsForUser calls it.                                         *)
(***************************************************************************)
MaxIngredients == 2

\* ingredient names a catalog record can list
IngredientPool == {"Niacinamide", "Fragrance", "Retinol", "Glycerin"}

\* the lists of at most n ingredient names
IngredientLists(n) == UNION {[1..k -> IngredientPool] : k \in 0..n}

withIngredients(product, names) ==
  [product EXCEPT !.ingredients_extracted = Strings(names)]

\* the product with one more ingredient at the end of its list
withIngredient(product, name) ==
  withIngredients(product, Append(product.ingredients_extracted.items, name))

\* the catalog rows, each as it is and with every list of ingredient names,
\* and a row whose ingredients_list holds an entry that is not a string
ScoreProducts ==
  Range(ProductRows)
  \cup {withIngredients(ProductRows[i], names) :
          i \in 1..Len(ProductRows), names \in IngredientLists(MaxIngredients)}
  \cup {[ProductRows[1] EXCEPT !.ingredients_extracted = MalformedList]}

\* a batch is one product, or a product followed by the same product with
\* one more ingredient
Batches ==
  {<<p>> : p \in ScoreProducts}
  \cup {<<withIngredients(ProductRows[i], names),
          withIngredient(withIngredients(ProductRows[i], names), name)>> :
          i \in 1..Len(ProductRows),
          names \in IngredientLists(MaxIngredients - 1),
          name \in IngredientPool}

\* the criteria extractFilterCriteria builds for the profiles and analyses
Criteria ==
  UNION {{extractFilterCriteria(a, p) : a \in AnalysisOutcomes(p)} : p \in Profiles}

ScoreInit ==
  /\ pc = "scoreProduct"
  /\ atRest
  /\ args \in [function : {"scoreProduct"}, products : Batches,
               criteria : Criteria, strict : BOOLEAN]
  /\ result = NoResult

scoreCalled ==
  /\ pc = "scoreProduct"
  /\ result' = [raised |-> FALSE,
                scored |-> map(args.products, LAMBDA product :
                                 scoreProduct(product, args.criteria, args.strict))]
  /\ pc' = "returned"
  /\ restUnchanged
  /\ UNCHANGED args

ScoreNext == scoreCalled

ScoreSpec == ScoreInit /\ [][ScoreNext]_vars

scoreReturned == pc = "returned" /\ args.function = "scoreProduct"

\* the must-have entries of the criteria the product matches
mustHaveHits(product, criteria) ==
  IF extractionRaises(product.ingredients_extracted) THEN <<>>
  ELSE ingredientHits(product, criteria.mustHaveIngredients)

\* the second product of the batch is the first with one more ingredient,
\* and that ingredient makes one more must-have entry match
oneMoreMustHave ==
  /\ Len(args.products) = 2
  /\ Len(mustHaveHits(args.products[2], args.criteria))
       = Len(mustHaveHits(args.products[1], args.criteria)) + 1

\* C12: with the same criteria and strict flag, a product that matches one
\* more must-have ingredient than an otherwise identical product never gets
\* a lower score than that product.
C12_MustHaveMonotone ==
  (scoreReturned /\ oneMoreMustHave)
  => result.scored[2].score >= result.scored[1].score

\* the products of the query that score above 0 under the given avoidance
eligible(strict) ==
  LET criteria == extractFilterCriteria(analysis, profile)
  IN filter(map(productsQuery(table, options.budgetFilter, criteria.budgetRange),
                LAMBDA product : scoreProduct(product, criteria, strict)),
            LAMBDA scored : scored.score > 0)

\* C13: when scoring under strict avoidance leaves no eligible candidate and
\* scoring the same products with lenient avoidance leaves some, the
\* candidates filterProductsForUser returns are those of the lenient scoring,
\* not the all-products fallback.
C13_RelaxedBeforeFallback ==
  (/\ pc = "returned"
   /\ options.strictIngredientFiltering
   /\ ~filterResult.raised
   /\ eligible(TRUE) = <<>>
   /\ eligible(FALSE) # <<>>)
  => Range(flat(filterResult.productsByCategory)) \subseteq Range(eligible(FALSE))

\* the applicationOrder values of a routine are positive and pairwise distinct
ordered(routine) ==
  routine.kind = "list"
  => /\ \A i \in 1..Len(routine.items) : routine.items[i].applicationOrder >= 1
     /\ \A i, j \in 1..Len(routine.items) :
          i # j => routine.items[i].applicationOrder # routine.items[j].applicationOrder

\* C14: in every recommendation selectFinalProductsWithAI returns, whether
\* parsed from JSON, built by parseTextResponse or by
\* createFallbackRecommendations, the applicationOrder values within each
\* routine are positive integers and pairwise distinct.
C14_ApplicationOrderDistinct ==
  selected => ordered(recommendations.morningRoutine)
              /\ ordered(recommendations.eveningRoutine)

(***************************************************************************)
(* Several runs of performFullAnalysisAsync interleaved at their awaits.   *)
(* analysisStatus is the controller's object keyed by analysisId, pc holds *)
(* each run's position and the analysisId uuidv4 gave it.                  *)
(***************************************************************************)
MaxRuns == 2

Runs == 1..MaxRuns

\* the values of uuidv4: one is never handed out twice
AnalysisIds == 1..MaxRuns

NotStarted == [at |-> "idle", analysisId |-> 0]

\* analysisStatus[analysisId] = entry, on every entry instead of one
writeAll(statuses, analysisId, entry) ==
  [id \in DOMAIN statuses \cup {analysisId} |-> entry]

\* analysisStatus[analysisId] = entry
write(statuses, analysisId, entry) ==
  [id \in DOMAIN statuses \cup {analysisId} |->
     IF id = analysisId THEN entry ELSE statuses[id]]

\* updateAnalysisStatus(analysisId, step, progress) on the whole object
updated(statuses, analysisId, step, progress) ==
  IF analysisId \notin DOMAIN statuses THEN statuses
  ELSE write(statuses, analysisId,
             updateAnalysisStatus(statuses[analysisId], step, progress))

\* the awaits of performFullAnalysisAsync in order, each with the step and
\* progress reported before the next one
Awaits ==
  << [at |-> "performComprehensiveAnalysis", step |-> "saving_analysis", progress |-> 25],
     [at |-> "saveAIAnalysisResults", step |-> "rule_based_filtering", progress |-> 45],
     [at |-> "matchProductsWithAI", step |-> "ai_product_selection", progress |-> 65],
     [at |-> "selectFinalProductsWithAI", step |-> "routine_optimization", progress |-> 85],
     [at |-> "saveRecommendations", step |-> "", progress |-> 100] >>

\* the awaits whose rejection reaches the catch block: performComprehensiveAnalysis
\* catches its own errors and the error of saveAIAnalysisResults is logged
Rejecting ==
  [matchProductsWithAI |-> QueryFailed,
   selectFinalProductsWithAI |-> NotAFunction,
   saveRecommendations |-> InsertRejected]

RunsInit ==
  /\ pc = [run \in Runs |-> NotStarted]
  /\ analysisStatus = <<>>
  /\ table = <<>>
  /\ profile = NoProfile
  /\ analysis = NoAnalysis
  /\ productsByType = <<>>
  /\ reply = NoReply
  /\ recommendations = NoRecommendations
  /\ recommendationRecords = {}
  /\ productRecommendations = {}
  /\ guarded = FALSE
  /\ options = matchOptions
  /\ filterResult = NoFilterResult
  /\ args = NoArgs
  /\ result = NoResult
  /\ invitation = NoInvitation
  /\ users = {}

runUnchanged ==
  UNCHANGED <<table, profile, analysis, productsByType, reply, recommendations,
              recommendationRecords, productRecommendations, guarded, options,
              filterResult, args, result, invitation, users>>

\* triggerAnalysis for one more run: uuidv4, the entry is created and
\* performFullAnalysisAsync runs up to its first await
runTriggered(run) ==
  /\ pc[run].at = "idle"
  /\ \E analysisId \in AnalysisIds \ DOMAIN analysisStatus :
       /\ analysisStatus' =
            updated(write(analysisStatus, analysisId,
                          [status |-> "processing", progress |-> 0,
                           current_step |-> "Initializing analysis", error |-> ""]),
                    analysisId, "profile_analysis", 15)
       /\ pc' = [pc EXCEPT ![run] = [at |-> Awaits[1].at, analysisId |-> analysisId]]
  /\ runUnchanged

\* the await the run is at resolved: the next step is reported, or the run
\* is complete
runResumed(run) ==
  /\ \E i \in 1..Len(Awaits) :
       /\ pc[run].at = Awaits[i].at
       /\ IF i < Len(Awaits)
          THEN /\ analysisStatus' = updated(analysisStatus, pc[run].analysisId,
                                            Awaits[i].step, Awaits[i].progress)
               /\ pc' = [pc EXCEPT ![run].at = Awaits[i + 1].at]
          ELSE /\ analysisStatus' =
                    write(analysisStatus, pc[run].analysisId,
                          completed(analysisStatus[pc[run].analysisId]))
               /\ pc' = [pc EXCEPT ![run].at = "done"]
  /\ runUnchanged

\* the await the run is at rejected: the catch block
runRejected(run) ==
  /\ pc[run].at \in DOMAIN Rejecting
  /\ analysisStatus' =
       write(analysisStatus, pc[run].analysisId,
             failed(analysisStatus[pc[run].analysisId], Rejecting[pc[run].at]))
  /\ pc' = [pc EXCEPT ![run].at = "done"]
  /\ runUnchanged

RunsNext ==
  \E run \in Runs :
    \/ runTriggered(run)
    \/ runResumed(run)
    \/ runRejected(run)

RunsSpec == RunsInit /\ [][RunsNext]_vars

\* the step is one of the given run
stepOf(run) == pc'[run] # pc[run]

\* C15: under any interleaving of the runs, a step of a run changes only
\* the analysisStatus entry keyed by that run's own analysisId: no other
\* entry is changed, added or removed.
C15_RunsWriteOwnEntry ==
  [][\A run \in Runs :
       stepOf(run) =>
         /\ DOMAIN analysisStatus' \subseteq DOMAIN analysisStatus \cup {pc'[run].analysisId}
         /\ \A id \in DOMAIN analysisStatus \ {pc'[run].analysisId} :
              id \in DOMAIN analysisStatus' /\ analysisStatus'[id] = analysisStatus[id]]_vars

\* C15 witness: two runs have interleaved: one has failed while the other,
\* started before it ended, is complete
C15_Witness ==
  \E r1, r2 \in Runs :
    /\ pc[r1].at = "done" /\ pc[r2].at = "done"
    /\ pc[r1].analysisId # pc[r2].analysisId
    /\ analysisStatus[pc[r1].analysisId].status = "failed"
    /\ analysisStatus[pc[r1].analysisId].progress = 65
    /\ analysisStatus[pc[r2].analysisId].status = "completed"

(***************************************************************************)
(* extractIngredientNames called on its own.                               *)
(***************************************************************************)
\* names as a catalog writes them: mixed case, or empty
WrittenNames == {"Niacinamide", "ZINC", "aloe vera", ""}

WrittenLists(n) == UNION {[1..k -> WrittenNames] : k \in 0..n}

\* null, [], [string, ...], [{name}, ...], {ingredients_list: [...]},
\* "single string", {} and 42; and an ingredients_list with an entry that is
\* not a string
IngredientShapes ==
  {NoValue, EmptyObject, Number42, MalformedList}
  \cup {SingleString(name) : name \in WrittenNames}
  \cup UNION {{Strings(names), Objects(names), IngredientsList(names)} :
                names \in WrittenLists(MaxIngredients)}

NamesInit ==
  /\ pc = "extractIngredientNames"
  /\ atRest
  /\ args \in [function : {"extractIngredientNames"}, ingredients : IngredientShapes]
  /\ result = NoResult

namesCalled ==
  /\ pc = "extractIngredientNames"
  /\ result' = IF extractionRaises(args.ingredients) THEN Raised
               ELSE [raised |-> FALSE, names |-> extractIngredientNames(args.ingredients)]
  /\ pc' = "returned"
  /\ restUnchanged
  /\ UNCHANGED args

NamesNext == namesCalled

NamesSpec == NamesInit /\ [][NamesNext]_vars

\* the names the input carries, empty ones aside, in order
written(ingredients) ==
  IF ingredients.kind \in {"strings", "objects", "list", "string"}
  THEN SelectSeq(ingredients.items, LAMBDA name : name # "")
  ELSE <<>>

avoidHits(product, criteria) ==
  IF extractionRaises(product.ingredients_extracted) THEN <<>>
  ELSE filter(criteria.avoidIngredients, LAMBDA a : avoidMatches(product, a))

\* what the factors other than avoidance add for the product
bonuses(product, criteria) ==
  100 * Len(mustHaveHits(product, criteria))
  + 50 * Len(ingredientHits(product, criteria.beneficialIngredients))
  + 30 * Len(concernHits(product, criteria))
  + (IF skinTypeHit(product, criteria) THEN 20 ELSE 0)
  + (IF withinBudget(product, criteria) THEN 10 ELSE 0)

ratingBonus(product) == IF highlyRated(product) THEN 15 ELSE 0

\* 50 is subtracted for each avoid entry matched and the other factors are
\* applied (a sum of 0 may be raised to the base floor)
penalized(scored, criteria) ==
  LET sum == bonuses(scored.product, criteria)
               - 50 * Len(avoidHits(scored.product, criteria))
  IN \/ scored.score = sum + ratingBonus(scored.product)
     \/ sum = 0 /\ scored.score = 5 + ratingBonus(scored.product)

\* C18: when an avoid entry is a substring of a normalized ingredient of the
\* product, scoreProduct under strict returns score 0 with a single
\* disqualification reason, and without strict subtracts 50 and still applies
\* the must-have, beneficial, concern, skin-type, budget and rating factors.
C18_AvoidDisqualifiesOrPenalizes ==
  scoreReturned =>
    \A i \in 1..Len(result.scored) :
      avoidHits(args.products[i], args.criteria) # <<>>
      => IF args.strict
         THEN result.scored[i].score = 0 /\ Len(result.scored[i].matchReasons) = 1
         ELSE penalized(result.scored[i], args.criteria)

\* scoring reached its end: the result is not that of the catch block
computed(scored) == scored # processingError(scored.product)

\* the base floor was applied to the result
floored(scored) == "Valid skincare product" \in Range(scored.matchReasons)

\* a scoring step other than the floor fired for the product
fired(product, criteria) ==
  \/ avoidHits(product, criteria) # <<>>
  \/ bonuses(product, criteria) > 0
  \/ highlyRated(product)

\* C19: the base floor of 5 is applied only when no scoring step fired: it
\* is never added to another bonus and never replaces a score that penalties
\* and bonuses cancelled to 0, and a product whose only match is the quality
\* bonus scores exactly 15.
C19_FloorOnlyWhenNothingFired ==
  scoreReturned =>
    \A i \in 1..Len(result.scored) :
      computed(result.scored[i])
      => /\ floored(result.scored[i]) => ~fired(args.products[i], args.criteria)
         /\ (/\ highlyRated(args.products[i])
             /\ avoidHits(args.products[i], args.criteria) = <<>>
             /\ bonuses(args.products[i], args.criteria) = 0)
            => result.scored[i].score = 15

\* a field of the product makes scoreProduct raise
malformed(product) ==
  categoryRaises(product) \/ extractionRaises(product.ingredients_extracted)

\* the products the catalog query of the run returned
queried ==
  productsQuery(table, options.budgetFilter,
                extractFilterCriteria(analysis, profile).budgetRange)

\* C20: when the catalog query succeeded and scoring a product of the batch
\* raises on a malformed field, filterProductsForUser does not raise: the
\* offending product is returned with score 1 and the processing-error
\* reason, and every other product returned has the score scoreProduct
\* gives it on its own.
C20_ScoringErrorDoesNotAbort ==
  (/\ filterResult # NoFilterResult
   /\ analysisStatus.error # QueryFailed
   /\ some(queried, malformed))
  => /\ ~filterResult.raised
     /\ \A p \in Range(queried) :
          malformed(p)
          => processingError(p) \in Range(flat(filterResult.productsByCategory))
     /\ \A c \in Range(flat(filterResult.productsByCategory)) :
          c = scoreProduct(c.product, filterResult.filterCriteria,
                           options.strictIngredientFiltering)

\* the scored products filterProductsForUser hands to groupProductsByCategory
groupedInput ==
  IF eligible(options.strictIngredientFiltering) = <<>>
  THEN map(queried, availableProduct)
  ELSE eligible(options.strictIngredientFiltering)

\* the products of the input detected as of the category and not in its list
leftOut(entry) ==
  {scored \in Range(groupedInput) :
     /\ detectProductCategory(scored.product) = entry.category
     /\ scored \notin Range(entry.products)}

\* C21: in the productsByCategory that groupProductsByCategory returns every
\* category list has at most maxPerCategory entries, and no product of the
\* category that was left out has a strictly higher score than one kept.
C21_CappedKeepsHighest ==
  (pc = "returned" /\ ~filterResult.raised)
  => \A entry \in Range(filterResult.productsByCategory) :
       /\ Len(entry.products) <= options.maxProductsPerCategory
       /\ \A kept \in Range(entry.products), out \in leftOut(entry) :
            out.score <= kept.score

\* C21 witness: a category list was capped and the product left out scores
\* strictly lower than the one kept
C21_Witness ==
  /\ pc = "returned"
  /\ ~filterResult.raised
  /\ \E entry \in Range(filterResult.productsByCategory) :
       /\ Len(entry.products) = options.maxProductsPerCategory
       /\ \E kept \in Range(entry.products), out \in leftOut(entry) :
            out.score < kept.score

(***************************************************************************)
(* groupProductsByCategory called on a list of scored products, sorted by  *)
(* descending score as filterProductsForUser passes it.                    *)
(***************************************************************************)
\* a serum by its category_path only, and a cleanser whose name also names
\* another key category
Essence == Product("p9", "Hydra Essence", JsStr("Skincare/Serum"), 40, 4,
                   Strings(<<"Glycerin">>), NoValue)

SerumCleanser == Product("p10", "Serum Cleanser", JsStr("Skincare"), 22, 4,
                         Strings(<<"Glycerin">>), NoValue)

GroupRows == <<Essence, SerumCleanser>> \o ProductRows

ScoreLevels == {20, 10}

\* the lists of at most n rows, each with a score, highest score first
ScoredLists(n) ==
  UNION {{[i \in 1..Len(rows) |->
             [product |-> rows[i], score |-> scores[i], matchReasons |-> <<>>]] :
            scores \in {f \in [1..Len(rows) -> ScoreLevels] :
                          \A i, j \in 1..Len(rows) : i < j => f[i] >= f[j]}} :
         rows \in Selections(GroupRows, n)}

GroupInit ==
  /\ pc = "groupProductsByCategory"
  /\ atRest
  /\ args \in [function : {"groupProductsByCategory"},
               products : ScoredLists(MaxCatalog),
               maxPerCategory : {1, 10}]
  /\ result = NoResult

groupCalled ==
  /\ pc = "groupProductsByCategory"
  /\ result' = IF groupingRaises(args.products) THEN Raised
               ELSE [raised |-> FALSE,
                     categories |->
                       groupProductsByCategory(args.products, args.maxPerCategory)]
  /\ pc' = "returned"
  /\ restUnchanged
  /\ UNCHANGED args

GroupNext == groupCalled

GroupSpec == GroupInit /\ [][GroupNext]_vars

groupReturned ==
  pc = "returned" /\ args.function = "groupProductsByCategory" /\ ~result.raised

\* the products of the input whose name fits the key category
fitting(cat) == {p \in Range(args.products) : fitsKeyCategory(p, cat)}

\* C22 as claimed: when a product of the scored input has a name containing
\* the key category (or 'cream' for moisturizer), the category holds at
\* least one such product.
C22_EssentialHoldsNamedProduct ==
  groupReturned
  => \A cat \in Range(keyCategories) :
       fitting(cat) # {}
       => \E p \in Range(get(result.categories, cat)) : p \in fitting(cat)

\* C22: after groupProductsByCategory a key category (cleanser, serum,
\* moisturizer) is absent or empty only if no product of the scored input
\* has a name containing the category (or 'cream' for moisturizer);
\* otherwise it holds at least one product, taken from the scored input.
C22_EssentialNotEmpty ==
  groupReturned
  => \A cat \in Range(keyCategories) :
       /\ fitting(cat) # {} => get(result.categories, cat) # <<>>
       /\ Range(get(result.categories, cat)) \subseteq Range(args.products)

\* C22 witness: a key category was backfilled with a product that the
\* grouping had put in another category
C22_Witness ==
  /\ groupReturned
  /\ \E cat \in Range(keyCategories) :
       /\ Len(get(result.categories, cat)) = 1
       /\ get(result.categories, cat)[1] \in fitting(cat)
       /\ detectProductCategory(get(result.categories, cat)[1].product) # cat

fallbackReturned ==
  pc = "returned" /\ args.function = "createFallbackRecommendations" /\ ~result.raised

\* the productType the evening routine gives the slot of a morning item
eveningType(type) == IF type = "serum" THEN "treatment" ELSE type

\* C23: the evening routine built by createFallbackRecommendations has an
\* item for each of cleanser, serum and moisturizer whose candidate list is
\* not empty: no category filled in the morning routine is left without an
\* evening item.
C23_EveningCoversMorning ==
  fallbackReturned
  => \A m \in Range(result.morningRoutine.items) :
       \E e \in Range(result.eveningRoutine.items) :
         e.productType = eveningType(m.productType)

(***************************************************************************)
(* The catch block of selectFinalProductsWithAI called on the candidates   *)
(* matchProductsWithAI passes: scored, grouped by type, each type list     *)
(* sorted by descending score.                                             *)
(***************************************************************************)
CandidatesByType ==
  {convertToProductsByType(groupProductsByCategory(products, matchOptions.maxProductsPerCategory)) :
     products \in {list \in ScoredLists(MaxCatalog) : ~groupingRaises(list)}}

RankedInit ==
  /\ pc = "callFailed"
  /\ atRest
  /\ args \in [function : {"callFailed"}, productsByType : CandidatesByType]
  /\ result = NoResult

rankedCalled ==
  /\ pc = "callFailed"
  /\ result' = callFailed(args.productsByType)
  /\ pc' = "returned"
  /\ restUnchanged
  /\ UNCHANGED args

RankedNext == rankedCalled

RankedSpec == RankedInit /\ [][RankedNext]_vars

\* the candidates createFallbackRecommendations takes as serums
serumCandidates ==
  filter(flat(args.productsByType), LAMBDA c :
    \/ includes(lowerName(c.product), "serum")
    \/ optIncludes(c.product.category_path, "serum"))

\* C24: the morning serum of createFallbackRecommendations is a serum
\* candidate with the highest score among the serum candidates: the
\* preference for niacinamide only decides between serums of equal score.
C24_MorningSerumHasTopScore ==
  (pc = "returned" /\ args.function = "callFailed" /\ ~result.raised)
  => \A item \in Range(result.morningRoutine.items) :
       item.productType = "serum"
       => \E c \in Range(serumCandidates) :
            /\ JsStr(c.product.product_id) = item.productId
            /\ \A other \in Range(serumCandidates) : other.score <= c.score

\* the avoid entry as text compared without regard to letter case
folded(entry) == toLowerCase(entry.str)

\* C25: the avoidIngredients of extractFilterCriteria is the
\* case-insensitive set union of the avoid list of the analysis and the
\* known_allergies of the profile: every entry of both lists is covered and
\* no two entries differ only in letter case.
C25_AvoidIsCaseInsensitiveUnion ==
  (pc = "returned" /\ ~filterResult.raised)
  => LET avoid == filterResult.filterCriteria.avoidIngredients
         given == (IF analysis.hasIngredientRecommendations THEN analysis.avoid ELSE <<>>)
                    \o profile.known_allergies
     IN /\ \A g \in Range(given) :
             g.kind = "str" => \E a \in Range(avoid) : a.kind = "str" /\ folded(a) = folded(g)
        /\ \A i, j \in 1..Len(avoid) :
             (i # j /\ avoid[i].kind = "str" /\ avoid[j].kind = "str")
             => folded(avoid[i]) # folded(avoid[j])

(***************************************************************************)
(* extractFilterCriteria called on an analysis whose fields are as the     *)
(* model returned them: a field is absent, an array, or a value that is    *)
(* not an array (NotAList: an object such as {}, which has no map method   *)
(* and is not iterable).                                                   *)
(***************************************************************************)
RawLists(entries) == {Absent, NotAList, List(<<>>), List(entries)}

RawAnalyses ==
  [ingredientRecommendations : BOOLEAN,
   mustHave : RawLists(<<"Niacinamide">>),
   beneficial : RawLists(<<"Retinol">>),
   avoid : RawLists(<<JsStr("Fragrance")>>),
   routineStructure : BOOLEAN,
   morningSteps : RawLists(<<"cleanser">>),
   eveningSteps : RawLists(<<"cleanser", "serum">>)]

\* mustHave?.map and steps?.map are not functions, [...avoid] is not iterable
extractFilterCriteriaRaises(aiAnalysis) ==
  \/ /\ aiAnalysis.ingredientRecommendations
     /\ aiAnalysis.mustHave = NotAList \/ aiAnalysis.avoid = NotAList
  \/ /\ aiAnalysis.routineStructure
     /\ aiAnalysis.morningSteps = NotAList \/ aiAnalysis.eveningSteps = NotAList

\* field || [] : an absent field gives [], any other value is kept
orEmpty(field) == IF field = Absent THEN List(<<>>) ELSE field

\* the criteria fields extractFilterCriteria reads from the analysis
rawCriteria(aiAnalysis, userProfile) ==
  LET recs == aiAnalysis.ingredientRecommendations
      avoid == IF recs THEN orEmpty(aiAnalysis.avoid).items ELSE <<>>
      types == IF aiAnalysis.routineStructure
               THEN uniq(orEmpty(aiAnalysis.morningSteps).items
                         \o orEmpty(aiAnalysis.eveningSteps).items)
               ELSE <<>>
  IN [raised |-> FALSE,
      mustHaveIngredients |-> IF recs THEN orEmpty(aiAnalysis.mustHave) ELSE List(<<>>),
      beneficialIngredients |-> IF recs THEN orEmpty(aiAnalysis.beneficial) ELSE List(<<>>),
      avoidBeforeAllergies |-> List(avoid),
      avoidIngredients |-> List(uniq(avoid \o userProfile.known_allergies)),
      productTypes |-> List(types)]

CriteriaInit ==
  /\ pc = "extractFilterCriteria"
  /\ analysisStatus = NoStatus /\ table = <<>>
  /\ profile \in Profiles
  /\ analysis = NoAnalysis /\ productsByType = <<>> /\ reply = NoReply
  /\ recommendations = NoRecommendations
  /\ recommendationRecords = {} /\ productRecommendations = {}
  /\ guarded = FALSE /\ options = matchOptions /\ filterResult = NoFilterResult
  /\ args \in [function : {"extractFilterCriteria"}, aiAnalysis : RawAnalyses]
  /\ result = NoResult
  /\ invitation = NoInvitation
  /\ users = {}

criteriaCalled ==
  /\ pc = "extractFilterCriteria"
  /\ result' = IF extractFilterCriteriaRaises(args.aiAnalysis) THEN Raised
               ELSE rawCriteria(args.aiAnalysis, profile)
  /\ pc' = "returned"
  /\ restUnchanged
  /\ UNCHANGED args

CriteriaNext == criteriaCalled

CriteriaSpec == CriteriaInit /\ [][CriteriaNext]_vars

\* the field of the analysis is absent or not a list
degenerate(present, field) == ~present \/ field \in {Absent, NotAList}

\* C26: extractFilterCriteria never raises when mustHave, beneficial, avoid
\* or the steps of the morning or evening routine are absent or malformed;
\* the criteria field read from an absent or malformed field is the empty
\* list.
C26_MalformedDegradesToEmpty ==
  (pc = "returned" /\ args.function = "extractFilterCriteria")
  => LET a == args.aiAnalysis
     IN /\ ~result.raised
        /\ degenerate(a.ingredientRecommendations, a.mustHave)
             => result.mustHaveIngredients = List(<<>>)
        /\ degenerate(a.ingredientRecommendations, a.beneficial)
             => result.beneficialIngredients = List(<<>>)
        /\ degenerate(a.ingredientRecommendations, a.avoid)
             => result.avoidBeforeAllergies = List(<<>>)
        /\ (degenerate(a.routineStructure, a.morningSteps)
            /\ degenerate(a.routineStructure, a.eveningSteps))
             => result.productTypes = List(<<>>)

Terminal == {"completed", "failed"}

\* C27: the status of a run changes only from 'processing' to 'completed'
\* or to 'failed'; an entry that is 'completed' or 'failed' is not changed
\* by any later step of any run, and the progress of a run never decreases.
C27_StatusOnlyAdvances ==
  [][\A id \in DOMAIN analysisStatus :
       /\ id \in DOMAIN analysisStatus'
       /\ analysisStatus[id].status \in Terminal
            => analysisStatus'[id] = analysisStatus[id]
       /\ analysisStatus'[id].status # analysisStatus[id].status
            => /\ analysisStatus[id].status = "processing"
               /\ analysisStatus'[id].status \in Terminal
       /\ analysisStatus'[id].progress >= analysisStatus[id].progress]_vars

\* C27 witness: one run is complete at progress 100 while another, still
\* processing, has reported progress 85 after having reported less
C27_Witness ==
  \E r1, r2 \in Runs :
    /\ pc[r1].at = "done"
    /\ analysisStatus[pc[r1].analysisId].status = "completed"
    /\ analysisStatus[pc[r1].analysisId].progress = 100
    /\ pc[r2].at = "saveRecommendations"
    /\ analysisStatus[pc[r2].analysisId].status = "processing"
    /\ analysisStatus[pc[r2].analysisId].progress = 85

\* the records of the user with is_active = true
active(recs) == {r \in recs : r.is_active}

\* C28: a run that ends in 'failed', in particular because the insert of the
\* new records was rejected or nothing valid was left to insert, leaves the
\* user's set of active recommendations as it was before the run.
C28_FailedRunKeepsActive ==
  (pc = "done" /\ analysisStatus.status = "failed")
  => active(productRecommendations) = active(EarlierRecords)

(***************************************************************************)
(* saveRecommendations of several runs of one user, interleaved at its     *)
(* awaits: the update that deactivates, the verification query, the        *)
(* insert.  pc holds each run's position, recommendations the routines     *)
(* each run saves, recommendationRecords the records each run built.  The  *)
(* analysis_id of a record names the run it comes from.                    *)
(***************************************************************************)
\* the recommendations a run saves: a morning item, the evening routine empty
Saved == {[raised |-> FALSE, morningRoutine |-> List(<<modelItem(id, 1)>>),
           eveningRoutine |-> List(<<>>)] : id \in {"p1", "p3", InventedId}}

SaveInit ==
  /\ pc = [run \in Runs |-> [at |-> "deactivate", analysisId |-> ToString(run)]]
  /\ analysisStatus = <<>>
  /\ table = <<ProductRows[1], ProductRows[3]>>
  /\ profile = NoProfile
  /\ analysis = createDefaultAnalysis(NoProfile)
  /\ productsByType = <<>>
  /\ reply = NoReply
  /\ recommendations \in [Runs -> Saved]
  /\ recommendationRecords = [run \in Runs |-> {}]
  /\ productRecommendations = EarlierRecords
  /\ guarded = FALSE
  /\ options = matchOptions
  /\ filterResult = NoFilterResult
  /\ args = NoArgs
  /\ result = NoResult
  /\ invitation = NoInvitation
  /\ users = {}

saveUnchanged ==
  UNCHANGED <<analysisStatus, table, profile, analysis, productsByType, reply,
              recommendations, guarded, options, filterResult, args, result,
              invitation, users>>

\* the update of the user's records to is_active = false replied; its error
\* is not looked at
saveDeactivated(run) ==
  /\ pc[run].at = "deactivate"
  /\ \E updateError \in BOOLEAN :
       productRecommendations' =
         IF updateError THEN productRecommendations
         ELSE deactivate(productRecommendations)
  /\ pc' = [pc EXCEPT ![run].at = "verify"]
  /\ UNCHANGED recommendationRecords
  /\ saveUnchanged

\* the verification query replied: the records are built, the insert issued
saveVerified(run) ==
  /\ pc[run].at = "verify"
  /\ \E productCheckError \in BOOLEAN :
       LET allProductIds == routineIds(recommendations[run].morningRoutine)
                            \cup routineIds(recommendations[run].eveningRoutine)
           validIds == IF productCheckError THEN {}
                       ELSE existingProducts(table, allProductIds)
           built == records(recommendations[run].morningRoutine, "morning", validIds)
                    \cup records(recommendations[run].eveningRoutine, "evening", validIds)
       IN recommendationRecords' =
            [recommendationRecords EXCEPT
               ![run] = {[r EXCEPT !.analysis_id = pc[run].analysisId] : r \in built}]
  /\ pc' = [pc EXCEPT ![run].at = "insert"]
  /\ UNCHANGED productRecommendations
  /\ saveUnchanged

\* the insert replied: an error is thrown, else the records are in the table
saveInserted(run) ==
  /\ pc[run].at = "insert"
  /\ \E error \in BOOLEAN :
       IF error
       THEN /\ pc' = [pc EXCEPT ![run].at = "failed"]
            /\ UNCHANGED productRecommendations
       ELSE /\ productRecommendations' =
                 productRecommendations \cup recommendationRecords[run]
            /\ pc' = [pc EXCEPT ![run].at = "saved"]
  /\ UNCHANGED recommendationRecords
  /\ saveUnchanged

SaveNext ==
  \E run \in Runs :
    \/ saveDeactivated(run)
    \/ saveVerified(run)
    \/ saveInserted(run)

SaveSpec == SaveInit /\ [][SaveNext]_vars

\* C29: when two runs of one user execute saveRecommendations under any
\* interleaving of their steps, once both have finished the records of the
\* user with is_active = true that the runs inserted come from a single run.
C29_ActiveFromOneRun ==
  (\A run \in Runs : pc[run].at \in {"saved", "failed"})
  => Cardinality({r.analysis_id : r \in active(productRecommendations)}
                   \cap {pc[run].analysisId : run \in Runs}) <= 1

(***************************************************************************)
(* register and InvitationService.useInvitation: MaxRuns register requests *)
(* with distinct emails carry the same invitation code.  pc[run] holds the *)
(* await the request is suspended at, which call of useInvitation it is    *)
(* in, the status its select read, what the validating call returned and   *)
(* the reply it sent.                                                      *)
(***************************************************************************)
invitation_code == "GLOW-1"

\* the row of the invitation when the requests arrive: pending and unexpired,
\* already used, or expired
InvitationRows == [status : {"pending", "used", "expired"}, invitee_user_id : {"null"}]

Received == [at |-> "existingUser", userId |-> "null", read |-> "none",
             validationResult |-> "none", res |-> "none"]

InviteInit ==
  /\ pc = [run \in Runs |-> Received]
  /\ analysisStatus = <<>>
  /\ table = <<>>
  /\ profile = NoProfile
  /\ analysis = NoAnalysis
  /\ productsByType = <<>>
  /\ reply = NoReply
  /\ recommendations = NoRecommendations
  /\ recommendationRecords = {}
  /\ productRecommendations = {}
  /\ guarded = FALSE
  /\ options = matchOptions
  /\ filterResult = NoFilterResult
  /\ args \in [function : {"register"}, invitation : InvitationRows]
  /\ result = NoResult
  /\ invitation = args.invitation
  /\ users = {}

inviteUnchanged ==
  UNCHANGED <<analysisStatus, table, profile, analysis, productsByType, reply,
              recommendations, recommendationRecords, productRecommendations,
              guarded, options, filterResult, args, result>>

\* what useInvitation returns for the row its select read, before any update
refusal(status) ==
  CASE status = "none" -> "INVALID_CODE"
    [] status = "used" -> "CODE_ALREADY_USED"
    [] status = "expired" -> "CODE_EXPIRED"
    [] OTHER -> "none"

\* useInvitation returned to register: the validating call (userId null)
\* decides between the 400 reply and the insert, the result of the call
\* after the insert is not looked at
returned(request, outcome) ==
  IF request.userId = "null"
  THEN [request EXCEPT !.validationResult = outcome,
                       !.at = IF outcome = "success" THEN "insert" ELSE "replied",
                       !.res = IF outcome = "success" THEN "none" ELSE "400"]
  ELSE [request EXCEPT !.at = "replied", !.res = "200"]

\* useInvitation or the insert raised: register's catch block replies 500
caught(request) == [request EXCEPT !.at = "replied", !.res = "500"]

\* register's select of a user with the request's email: the requests carry
\* emails of their own, so none finds a user and each goes on to the code
existingUserSelected(run) ==
  /\ pc[run].at = "existingUser"
  /\ pc' = [pc EXCEPT ![run] = [@ EXCEPT !.at = "expire_old_invitations"]]
  /\ UNCHANGED <<invitation, users>>
  /\ inviteUnchanged

\* the rpc useInvitation awaits first: it expires the pending invitations
\* whose expires_at has passed, so it leaves this row as it is
invitationsExpired(run) ==
  /\ pc[run].at = "expire_old_invitations"
  /\ pc' = [pc EXCEPT ![run] = [@ EXCEPT !.at = "select"]]
  /\ UNCHANGED <<invitation, users>>
  /\ inviteUnchanged

\* the select of the invitation by its code, and the checks of its status
inviteSelected(run) ==
  /\ pc[run].at = "select"
  /\ pc' = [pc EXCEPT ![run] =
              IF refusal(invitation.status) # "none"
              THEN returned([@ EXCEPT !.read = invitation.status],
                            refusal(invitation.status))
              ELSE [@ EXCEPT !.read = invitation.status, !.at = "update"]]
  /\ UNCHANGED <<invitation, users>>
  /\ inviteUnchanged

\* the update that marks the invitation used, keyed by the row's id alone
inviteUpdated(run) ==
  /\ pc[run].at = "update"
  /\ \E updateError \in BOOLEAN :
       IF updateError
       THEN /\ pc' = [pc EXCEPT ![run] = caught(@)]
            /\ UNCHANGED invitation
       ELSE /\ invitation' = [status |-> "used", invitee_user_id |-> pc[run].userId]
            /\ pc' = [pc EXCEPT ![run] = returned(@, "success")]
  /\ UNCHANGED users
  /\ inviteUnchanged

\* the insert of the new user, and the second call of useInvitation
userInserted(run) ==
  /\ pc[run].at = "insert"
  /\ \E createError \in BOOLEAN :
       IF createError
       THEN /\ pc' = [pc EXCEPT ![run] = caught(@)]
            /\ UNCHANGED users
       ELSE /\ users' = users \cup {[id |-> ToString(run),
                                     invitation_code_used |-> invitation_code]}
            /\ pc' = [pc EXCEPT ![run] = [@ EXCEPT !.userId = ToString(run),
                                                   !.at = "expire_old_invitations"]]
  /\ UNCHANGED invitation
  /\ inviteUnchanged

InviteNext ==
  \E run \in Runs :
    \/ existingUserSelected(run)
    \/ invitationsExpired(run)
    \/ inviteSelected(run)
    \/ inviteUpdated(run)
    \/ userInserted(run)

InviteSpec == InviteInit /\ [][InviteNext]_vars

admitted == {run \in Runs : pc[run].validationResult = "success"}

created == {user \in users : user.invitation_code_used = invitation_code}

\* C30: of the register requests that carry the same pending, unexpired
\* invitation code, in any order or interleaving, at most one has its
\* validating useInvitation return success, at most one user is created with
\* the code, and every request the validation refused was refused with
\* CODE_ALREADY_USED.
C30_CodeAdmitsOneRegistration ==
  args.invitation.status = "pending"
  => /\ Cardinality(admitted) <= 1
     /\ Cardinality(created) <= 1
     /\ \A run \in Runs :
          pc[run].res = "400" => pc[run].validationResult = "CODE_ALREADY_USED"

====
